---- MODULE Spec2Model ----
(***************************************************************************)
(* Model of lsof_tui: the connection reconciler (model.py, NetworkModel),  *)
(* fed with the parsed snapshots that network.get_connections returns; the *)
(* bandwidth sampler (NetworkIOModel) and its byte formatting; the lsof    *)
(* run, its parser and the hostname lookup (network.py); the application's *)
(* help panel, refresh timer and command handlers (app.py, widgets.py).    *)
(*                                                                         *)
(* A Python str is modelled as a tuple of one-character strings, so that   *)
(* prefix matching, lower-casing, concatenation and code-point ordering    *)
(* are computed character by character as the interpreter computes them.   *)
(***************************************************************************)
EXTENDS Integers, Sequences, FiniteSets, TLC

(***************************************************************************)
(* Characters and strings                                                  *)
(***************************************************************************)
Digits     == <<"0", "1", "2", "3", "4", "5", "6", "7", "8", "9">>
UpperCase  == <<"A", "B", "C", "D", "E", "F", "G", "H", "I", "J", "K", "L", "M",
                "N", "O", "P", "Q", "R", "S", "T", "U", "V", "W", "X", "Y", "Z">>
LowerCase  == <<"a", "b", "c", "d", "e", "f", "g", "h", "i", "j", "k", "l", "m",
                "n", "o", "p", "q", "r", "s", "t", "u", "v", "w", "x", "y", "z">>

IndexIn(c, tbl) == CHOOSE i \in 1..Len(tbl) : tbl[i] = c
IsIn(c, tbl)    == \E i \in 1..Len(tbl) : tbl[i] = c
Punctuation == {".", ":", "[", "^", "_"}
Alphabet == {Digits[i] : i \in 1..Len(Digits)}
            \cup {UpperCase[i] : i \in 1..Len(UpperCase)}
            \cup {LowerCase[i] : i \in 1..Len(LowerCase)}
            \cup Punctuation

\* ord(c): the code point of a character.
OrdTable ==
    [c \in Alphabet |->
        IF IsIn(c, Digits) THEN 47 + IndexIn(c, Digits)
        ELSE IF IsIn(c, UpperCase) THEN 64 + IndexIn(c, UpperCase)
        ELSE IF IsIn(c, LowerCase) THEN 96 + IndexIn(c, LowerCase)
        ELSE CASE c = "." -> 46
               [] c = ":" -> 58
               [] c = "[" -> 91
               [] c = "^" -> 94
               [] c = "_" -> 95]
Ord(c) == OrdTable[c]

\* str.lower() on one character.
LowerTable ==
    [c \in Alphabet |->
        IF IsIn(c, UpperCase) THEN LowerCase[IndexIn(c, UpperCase)] ELSE c]
LowerChar(c) == LowerTable[c]

\* str.lower()
Lower(s) == [i \in 1..Len(s) |-> LowerChar(s[i])]

\* s < t on Python strings: lexicographic on code points.
RECURSIVE StrLess(_, _)
StrLess(s, t) ==
    IF t = <<>> THEN FALSE
    ELSE IF s = <<>> THEN TRUE
    ELSE IF Ord(Head(s)) # Ord(Head(t)) THEN Ord(Head(s)) < Ord(Head(t))
    ELSE StrLess(Tail(s), Tail(t))

(***************************************************************************)
(* Field values that occur in the parsed snapshots                         *)
(***************************************************************************)
\* A field value is held in the state as a string; Chars gives its
\* characters to the operations that look inside it.
\* The names the resolver gives in the model: up to MaxLabels labels joined
\* by dots.
Labels == {"a", "x", "com"}
LabelChars == "a" :> <<"a">> @@ "x" :> <<"x">> @@ "com" :> <<"c", "o", "m">>
MaxLabels == 4
RECURSIVE LabelSeqs(_)
LabelSeqs(n) ==
    IF n = 1 THEN {<<l>> : l \in Labels}
    ELSE LabelSeqs(n - 1) \cup
         {Append(ls, l) : ls \in LabelSeqs(n - 1), l \in Labels}
RECURSIVE JoinName(_)
JoinName(ls) ==
    IF Len(ls) = 1 THEN ls[1] ELSE ls[1] \o "." \o JoinName(Tail(ls))
RECURSIVE JoinChars(_)
JoinChars(ls) ==
    IF Len(ls) = 1 THEN LabelChars[ls[1]]
    ELSE LabelChars[ls[1]] \o <<".">> \o JoinChars(Tail(ls))
HostNames == {JoinName(ls) : ls \in LabelSeqs(MaxLabels)}
HostNameChars ==
    [n \in HostNames |->
        JoinChars(CHOOSE ls \in LabelSeqs(MaxLabels) : JoinName(ls) = n)]

FieldChars ==
       ""            :> <<>>
    @@ "2"           :> <<"2">>
    @@ "10"          :> <<"1", "0">>
    @@ "B"           :> <<"B">>
    @@ "a"           :> <<"a">>
    @@ "TCP"         :> <<"T", "C", "P">>
    @@ "UDP"         :> <<"U", "D", "P">>
    @@ "80.1:22"     :> <<"8", "0", ".", "1", ":", "2", "2">>
    @@ "1.1:80"      :> <<"1", ".", "1", ":", "8", "0">>
    @@ "9.9:443"     :> <<"9", ".", "9", ":", "4", "4", "3">>
    @@ "x.com"       :> <<"x", ".", "c", "o", "m">>
    @@ "LISTEN"      :> <<"L", "I", "S", "T", "E", "N">>
    @@ "ESTABLISHED" :> <<"E", "S", "T", "A", "B", "L", "I", "S", "H", "E", "D">>
    @@ "SYN_SENT"    :> <<"S", "Y", "N", "_", "S", "E", "N", "T">>
    @@ "CLOSE"       :> <<"C", "L", "O", "S", "E">>
    @@ "TST=CLOSE"   :> <<"T", "S", "T", "=", "C", "L", "O", "S", "E">>
    @@ "^est"        :> <<"^", "e", "s", "t">>
    @@ "80"          :> <<"8", "0">>
    @@ "1"           :> <<"1">>
    @@ "12"          :> <<"1", "2">>
    @@ "23.0.0.1:80" :> <<"2", "3", ".", "0", ".", "0", ".", "1", ":", "8", "0">>
    @@ "3.0.0.1:80"  :> <<"3", ".", "0", ".", "0", ".", "1", ":", "8", "0">>
    @@ "["           :> <<"[">>
    @@ "p"           :> <<"p">>
    @@ "c"           :> <<"c">>
    @@ "P"           :> <<"P">>
    @@ "n"           :> <<"n">>
    @@ "TST"         :> <<"T", "S", "T">>
    @@ "TQS"         :> <<"T", "Q", "S">>
    @@ "->"          :> <<"-", ">">>
    @@ "p2"          :> <<"p", "2">>
    @@ "p10"         :> <<"p", "1", "0">>
    @@ "cB"          :> <<"c", "B">>
    @@ "ca"          :> <<"c", "a">>
    @@ "PTCP"        :> <<"P", "T", "C", "P">>
    @@ "n80.1:22"    :> <<"n", "8", "0", ".", "1", ":", "2", "2">>
    @@ "n1.1:80->9.9:443" :> <<"n", "1", ".", "1", ":", "8", "0", "-", ">",
                               "9", ".", "9", ":", "4", "4", "3">>
    @@ "1.1:80->9.9:443"  :> <<"1", ".", "1", ":", "8", "0", "-", ">",
                               "9", ".", "9", ":", "4", "4", "3">>
    @@ "TST=LISTEN"  :> <<"T", "S", "T", "=", "L", "I", "S", "T", "E", "N">>
    @@ "TST=ESTABLISHED" :> <<"T", "S", "T", "=", "E", "S", "T", "A", "B",
                              "L", "I", "S", "H", "E", "D">>
    @@ "TQS=0"       :> <<"T", "Q", "S", "=", "0">>
    @@ "."           :> <<".">>
    @@ ":"           :> <<":">>
    @@ "9.9"         :> <<"9", ".", "9">>
    @@ "www.x.com"   :> <<"w", "w", "w", ".", "x", ".", "c", "o", "m">>
    @@ "TQR=0"       :> <<"T", "Q", "R", "=", "0">>
    @@ "f4"          :> <<"f", "4">>
    @@ "0"           :> <<"0">>
    @@ "4"           :> <<"4">>

\* The characters of every string of the model.
Chars == FieldChars @@ HostNameChars

\* ConnectionAttributes, in the order of the ConnectionData fields.
Attributes == <<"pid", "name", "protocol", "laddr", "raddr", "status", "ns">>
AttributeSet == {Attributes[i] : i \in 1..Len(Attributes)}

\* The records get_connections can return in one poll: a listening socket,
\* and one connection seen in two states.
RecListen ==
    [pid |-> "2", name |-> "B", protocol |-> "TCP", laddr |-> "80.1:22",
     raddr |-> "", status |-> "LISTEN", ns |-> ""]
RecSyn ==
    [pid |-> "10", name |-> "a", protocol |-> "TCP", laddr |-> "1.1:80",
     raddr |-> "9.9:443", status |-> "SYN_SENT", ns |-> "x.com"]
RecEst == [RecSyn EXCEPT !.status = "ESTABLISHED"]
Records == {RecListen, RecSyn, RecEst}

\* Longest snapshot one poll returns in the model.
MaxSnapshot == 2

RECURSIVE SeqsUpTo(_, _)
SeqsUpTo(S, n) ==
    IF n = 0 THEN {<<>>}
    ELSE LET shorter == SeqsUpTo(S, n - 1)
         IN  shorter \cup {Append(s, x) : s \in shorter, x \in S}

Snapshots == SeqsUpTo(Records, MaxSnapshot)

\* Two sockets of different processes whose pid, laddr and raddr concatenate
\* to the same string.
RecOne ==
    [pid |-> "1", name |-> "a", protocol |-> "TCP", laddr |-> "23.0.0.1:80",
     raddr |-> "", status |-> "LISTEN", ns |-> ""]
RecTwelve ==
    [pid |-> "12", name |-> "B", protocol |-> "TCP", laddr |-> "3.0.0.1:80",
     raddr |-> "", status |-> "ESTABLISHED", ns |-> ""]
EdgeRecords == {RecOne, RecTwelve, RecListen}
EdgeSnapshots == SeqsUpTo(EdgeRecords, MaxSnapshot)

\* Filter patterns typed by the user.
PatAll    == ""
PatEst    == "^est"
Pat80     == "80"
Patterns  == {PatAll, PatEst, Pat80}
\* An unterminated character set: re.compile rejects it.
PatBad    == "["
EdgePatterns == {PatAll, PatEst, PatBad}

(***************************************************************************)
(* State of NetworkModel                                                   *)
(***************************************************************************)
VARIABLES
    all_conns,      \* _all_conns: dict in insertion order, as a sequence of
                    \*   entries [data, flag_updated]; the dict key of an
                    \*   entry is GetKey(entry.data)
    pattern,        \* _pattern: source text of the compiled pattern
    sort_mode,      \* _sort_mode
    conns,          \* _conns: the view, as the sequence of the entries' keys
    removed_conns,  \* _removed_conns, as the sequence of the entries' keys
    metrics,        \* _metrics: [nb_conns, actives, listening]
    snapshot,       \* what get_connections returned in the latest poll
    op              \* the latest operation applied to the model

vars == <<all_conns, pattern, sort_mode, conns, removed_conns, metrics,
          snapshot, op>>

(***************************************************************************)
(* State of NetworkIOModel                                                 *)
(***************************************************************************)
VARIABLES
    bytes_sent,     \* _bytes_sent: baseline counter
    bytes_recv,     \* _bytes_recv: baseline counter
    timestamp,      \* _timestamp of the baseline, in whole seconds
    bandwidth_in,   \* _bandwidth_in
    bandwidth_out,  \* _bandwidth_out
    net_io,         \* what get_send_recv_bytes returned in the latest call
    io_op           \* how the latest call on the object ended

ioVars == <<bytes_sent, bytes_recv, timestamp, bandwidth_in, bandwidth_out,
            net_io, io_op>>

(***************************************************************************)
(* _human_format as a function of its own: argument and result             *)
(***************************************************************************)
VARIABLES
    nb_bytes,       \* the byte count passed to _human_format
    rendered        \* what the call gave: [raised, text]

fmtVars == <<nb_bytes, rendered>>

(***************************************************************************)
(* Fetching: the lsof run and what get_connections makes of it             *)
(***************************************************************************)
VARIABLES
    lsof,           \* the latest run of the tool:
                    \*   [shell, installed, status, stdout]
    fetched         \* what the fetch gave: [called, raised, conns]

fetchVars == <<lsof, fetched>>

(***************************************************************************)
(* _get_hostname_from_conn as a function of its own                        *)
(***************************************************************************)
VARIABLES
    resolver,       \* what socket.gethostbyaddr does: [raised, name]
    hostname        \* what the call gave: [called, text]

hostVars == <<resolver, hostname>>

(***************************************************************************)
(* LsofApp: the help panel and the width left to the widgets               *)
(***************************************************************************)
VARIABLES
    help_panel_st,      \* _help_panel_st: "closed" or "opened"
    screen_width,       \* _screen_width
    r_renderable_width, \* the reactive the widgets are bound to
    col_pattern         \* what get_pattern gave in the widgets' watcher:
                        \*   [raised, text]

panelVars == <<help_panel_st, screen_width, r_renderable_width, col_pattern>>

(***************************************************************************)
(* LsofApp: the refresh timer and the handlers                             *)
(***************************************************************************)
VARIABLES
    timer,          \* self.timer: "none" before on_mount, "active", "paused"
    pc,             \* the statement _refresh_datatable is at, "idle" outside
    handler,        \* the handler or callback entered last
    app_raised      \* the exception that came out of it ("": none)

appVars == <<timer, pc, handler, app_raised>>

(***************************************************************************)
(* NetworkDataTable: the rows of the table                                 *)
(***************************************************************************)
VARIABLES
    table_rows,     \* the row keys of the DataTable
    r_show_icons    \* the reactive the columns are built from

tableVars == <<table_rows, r_show_icons>>
uiVars == <<panelVars, appVars, hostVars, tableVars>>

HELP_PANEL_MIN_WIDTH == 30
HELP_PANEL_MAX_WIDTH == 60
\* 0.33, in hundredths
HELP_PANEL_WIDTH_PERCENT == 33
DEVICES_WIDTH == <<120, 60, 0>>
DEVICES_NAMES == <<"lg", "md", "sm">>

\* int(screen_width * HELP_PANEL_WIDTH_PERCENT) for a width that is not
\* negative
PercentOf(w) == (w * HELP_PANEL_WIDTH_PERCENT) \div 100

\* PanelState.get_renderable_width of the two states
GetRenderableWidth(st, w) ==
    IF st = "opened"
    THEN LET share == PercentOf(w)
             capped == IF share < HELP_PANEL_MAX_WIDTH THEN share
                       ELSE HELP_PANEL_MAX_WIDTH
             panel == IF capped > HELP_PANEL_MIN_WIDTH THEN capped
                      ELSE HELP_PANEL_MIN_WIDTH
         IN  w - panel
    ELSE w

\* PanelState.toggle
Toggle(st) == IF st = "opened" THEN "closed" ELSE "opened"

\* ResponsiveWidget.get_pattern, as [raised, text]: i stops at the first
\* device width that new_width reaches; past the last one DEVICES_NAMES[i]
\* raises IndexError.
RECURSIVE DeviceIndex(_, _)
DeviceIndex(new_width, i) ==
    IF i <= Len(DEVICES_WIDTH) /\ new_width < DEVICES_WIDTH[i]
    THEN DeviceIndex(new_width, i + 1)
    ELSE i
GetPattern(new_width) ==
    LET i == DeviceIndex(new_width, 1) IN
    IF i > Len(DEVICES_NAMES) THEN [raised |-> "IndexError", text |-> ""]
    ELSE [raised |-> "", text |-> "col-" \o DEVICES_NAMES[i] \o "-"]

\* The objects a specification leaves out stay as they are.
NoPanel ==
    /\ help_panel_st = "closed" /\ screen_width = 0
    /\ r_renderable_width = 0 /\ col_pattern = GetPattern(0)
NoApp == timer = "none" /\ pc = "idle" /\ handler = "" /\ app_raised = ""
NoHost ==
    /\ resolver = [raised |-> "herror", name |-> ""]
    /\ hostname = [called |-> FALSE, text |-> ""]
NoTable == table_rows = {} /\ r_show_icons = TRUE
NoUI == NoPanel /\ NoApp /\ NoHost /\ NoTable

\* NetworkDataTable.update_display_columns: clear(True) drops every row
\* with the columns, and the columns are added again.
UpdateDisplayColumns == {}

\* NetworkDataTable.watch_r_renderable_width / watch_r_show_icons
WatchColumns(old, new, rows) ==
    IF old # new THEN UpdateDisplayColumns ELSE rows
NoIO ==
    /\ bytes_sent = 0 /\ bytes_recv = 0 /\ timestamp = 0
    /\ bandwidth_in = 0 /\ bandwidth_out = 0
    /\ net_io = <<0, 0, 0>> /\ io_op = "none"
NoFormat == nb_bytes = <<>> /\ rendered = [raised |-> "", text |-> ""]
NoFetch ==
    /\ lsof = [shell |-> TRUE, installed |-> TRUE, status |-> 0,
               stdout |-> <<>>]
    /\ fetched = [called |-> FALSE, raised |-> "", conns |-> <<>>]

(***************************************************************************)
(* ConnectionModel                                                         *)
(***************************************************************************)
\* dict.get(field, default)
Get(d, field, default) == IF field \in DOMAIN d THEN d[field] ELSE default

\* ConnectionModel.get_key: the three values concatenated.
GetKey(d) == d.pid \o d.laddr \o d.raddr

\* ConnectionModel.__init__
NewConnection(d) ==
    [data |-> [pid |-> d.pid, name |-> d.name, protocol |-> d.protocol,
               laddr |-> d.laddr, raddr |-> d.raddr,
               status |-> Get(d, "status", ""), ns |-> d.ns],
     flag_updated |-> TRUE]

\* An update that takes every field of the incoming record.
UpdateConnectionReplacing(e, d) ==
    [data |-> [pid |-> d.pid, name |-> d.name, protocol |-> d.protocol,
               laddr |-> d.laddr, raddr |-> d.raddr,
               status |-> Get(d, "status", ""), ns |-> d.ns],
     flag_updated |-> TRUE]

\* ConnectionModel.update
UpdateConnection(e, d) ==
    [data |-> [e.data EXCEPT !.status = Get(d, "status", "")],
     flag_updated |-> TRUE]

\* ConnectionModel.unset_flag
UnsetFlag(e) == [e EXCEPT !.flag_updated = FALSE]

\* ConnectionModel.should_remove
ShouldRemove(e) == ~e.flag_updated

(***************************************************************************)
(* The dict _all_conns                                                     *)
(***************************************************************************)
Keys(all) == {GetKey(all[i].data) : i \in 1..Len(all)}
IndexOf(all, key) == CHOOSE i \in 1..Len(all) : GetKey(all[i].data) = key
Entry(all, key) == all[IndexOf(all, key)]
\* dict.pop(key)
Pop(all, key) == SelectSeq(all, LAMBDA e : GetKey(e.data) # key)

\* The keys of the dict ICONS.
ICONS ==
    {"LISTEN", "ESTABLISHED", "CLOSE_WAIT", "TIME_WAIT", "SYN_SENT",
     "SYN_RECV", "FIN_WAIT1", "FIN_WAIT2", "CLOSING", "LAST_ACK",
     "nb_connections", "nb_actives", "nb_listening", "bandwidth_in",
     "bandwidth_out", "pid", "name", "laddr", "raddr", "ns", "status",
     "protocol", "filter"}

\* render_icon_or_label: "" for "", else ICONS.get(icon)[0] or [1], on
\* either side of show_icon; ICONS.get gives None for a name that is no
\* key, and None[...] raises TypeError.  The text itself is not kept.
RenderIconOrLabel(icon, show_icon) ==
    [raised |-> IF icon = "" \/ icon \in ICONS THEN "" ELSE "TypeError"]

\* The places of the view whose status cell cannot be rendered.
Unrendered(all, view, show_icon) ==
    {i \in 1..Len(view) :
        RenderIconOrLabel(Entry(all, view[i]).data.status, show_icon).raised # ""}

\* A refresh that adds the rows of the view and removes none.
UpdateDisplayRowsAdding(rows, all, view, removed, show_icon) ==
    [raised |-> "", rows |-> rows \cup {view[i] : i \in 1..Len(view)}]

\* NetworkDataTable.update_display_rows: going through the view, the status
\* cell is rendered and a row is added for the entry that has none (the
\* cell of the one that has a row is updated); then the row of every entry
\* of the removal list that has one is removed.  The first status that
\* cannot be rendered ends the refresh there.
UpdateDisplayRows(rows, all, view, removed, show_icon) ==
    LET bad == Unrendered(all, view, show_icon)
        first == CHOOSE i \in bad : \A j \in bad : i <= j
    IN  IF bad = {}
        THEN [raised |-> "",
              rows |-> (rows \cup {view[i] : i \in 1..Len(view)})
                           \ {removed[i] : i \in 1..Len(removed)}]
        ELSE [raised |-> "TypeError",
              rows |-> rows \cup {view[i] : i \in 1..(first - 1)}]

(***************************************************************************)
(* Pattern matching: re.compile(p, re.IGNORECASE).match(s)                 *)
(***************************************************************************)
\* The pattern matches s from position pos on (0-based); "^" asserts the
\* start of the string, every other character of the patterns used here is a
\* literal compared without case.
RECURSIVE MatchAt(_, _, _)
MatchAt(p, s, pos) ==
    IF p = <<>> THEN TRUE
    ELSE IF Head(p) = "^" THEN pos = 0 /\ MatchAt(Tail(p), s, pos)
    ELSE /\ pos < Len(s)
         /\ LowerChar(s[pos + 1]) = LowerChar(Head(p))
         /\ MatchAt(Tail(p), s, pos + 1)

\* Pattern.search in place of Pattern.match: the pattern may start anywhere.
PatternSearch(p, s) == \E pos \in 0..Len(Chars[s]) : MatchAt(Chars[p], Chars[s], pos)

\* Pattern.match: anchored at the start of the string.
PatternMatch(p, s) == MatchAt(Chars[p], Chars[s], 0)

\* re.compile(p) succeeds: "[" opens a character set that only "]" closes,
\* and no pattern used here holds a "]".
Compiles(p) == \A i \in 1..Len(Chars[p]) : Chars[p][i] # "["

\* NetworkModel._filter on the values of a dict (or of a ConnectionModel's data)
FilterValues(p, d) == \E f \in DOMAIN d : PatternMatch(p, d[f])

(***************************************************************************)
(* list.sort(key=lambda x: x[sort_mode].lower()): stable, ascending        *)
(***************************************************************************)
SortKey(all, key, mode) == Lower(Chars[Entry(all, key).data[mode]])

RECURSIVE InsertSorted(_, _, _, _)
InsertSorted(key, sorted, all, mode) ==
    IF sorted = <<>> THEN <<key>>
    ELSE IF StrLess(SortKey(all, key, mode), SortKey(all, Head(sorted), mode))
         THEN <<key>> \o sorted
         ELSE <<Head(sorted)>> \o InsertSorted(key, Tail(sorted), all, mode)

RECURSIVE SortView(_, _, _)
SortView(view, all, mode) ==
    IF view = <<>> THEN <<>>
    ELSE InsertSorted(view[Len(view)],
                      SortView(SubSeq(view, 1, Len(view) - 1), all, mode),
                      all, mode)

(***************************************************************************)
(* Metrics                                                                 *)
(***************************************************************************)
\* Metrics.reset
MetricsReset == [nb_conns |-> 0, actives |-> 0, listening |-> 0]

\* Metrics.update
MetricsUpdate(m, e) ==
    [nb_conns  |-> m.nb_conns + 1,
     actives   |-> m.actives + (IF e.data.status = "ESTABLISHED" THEN 1 ELSE 0),
     listening |-> m.listening + (IF e.data.status = "LISTEN" THEN 1 ELSE 0)]

(***************************************************************************)
(* NetworkModel.update_data                                                *)
(***************************************************************************)
\* Evaluates x once and applies F to its value.
Bind(x, F(_)) == CHOOSE r \in {F(v) : v \in {x}} : TRUE

\* A merge that appends to the view on every matching record, known key or not.
MergeRecordAppending(st, d, p) ==
    LET key == GetKey(d) IN
    IF ~FilterValues(p, d) THEN st
    ELSE LET all2 ==
                 IF key \notin Keys(st.all)
                 THEN Append(st.all, NewConnection(d))
                 ELSE [st.all EXCEPT ![IndexOf(st.all, key)] =
                                        UpdateConnection(@, d)]
         IN  Bind(all2, LAMBDA a : [all |-> a, view |-> Append(st.view, key),
              metrics |-> MetricsUpdate(st.metrics, Entry(a, key))])

\* The loop over get_connections(): st = [all, view, metrics]
MergeRecord(st, d, p) ==
    LET key == GetKey(d) IN
    IF ~FilterValues(p, d) THEN st
    ELSE LET all2 ==
                 IF key \notin Keys(st.all)
                 THEN Append(st.all, NewConnection(d))
                 ELSE [st.all EXCEPT ![IndexOf(st.all, key)] =
                                        UpdateConnection(@, d)]
             view2 == IF key \notin Keys(st.all) THEN Append(st.view, key)
                      ELSE st.view
         IN  Bind(all2, LAMBDA a : [all |-> a, view |-> view2,
              metrics |-> MetricsUpdate(st.metrics, Entry(a, key))])

RECURSIVE MergeAll(_, _, _)
MergeAll(st, snap, p) ==
    IF snap = <<>> THEN st
    ELSE Bind(st, LAMBDA s : MergeAll(MergeRecord(s, Head(snap), p), Tail(snap), p))

\* list.remove(x): drops the first occurrence.
RECURSIVE ListRemove(_, _)
ListRemove(l, x) ==
    IF l = <<>> THEN <<>>
    ELSE IF Head(l) = x THEN Tail(l)
    ELSE <<Head(l)>> \o ListRemove(Tail(l), x)

\* The sweep: for conn in removed: connections.remove(conn); _all_conns.pop(conn.key)
RECURSIVE Sweep(_, _)
Sweep(st, removed) ==
    IF removed = <<>> THEN st
    ELSE Sweep([st EXCEPT !.view = ListRemove(@, Head(removed)),
                          !.all  = Pop(@, Head(removed))],
               Tail(removed))

\* for conn in self.connections: conn.unset_flag()
UnsetFlags(all, view) ==
    [i \in 1..Len(all) |->
        IF \E j \in 1..Len(view) : view[j] = GetKey(all[i].data)
        THEN UnsetFlag(all[i]) ELSE all[i]]

UpdateData(snap) ==
    \E merged \in {MergeAll([all |-> all_conns, view |-> conns,
                             metrics |-> MetricsReset], snap, pattern)} :
    \E removed \in {SelectSeq(merged.view,
                              LAMBDA k : ShouldRemove(Entry(merged.all, k)))} :
    \E swept \in {Sweep(merged, removed)} :
    \E sorted \in {SortView(swept.view, swept.all, sort_mode)} :
        /\ all_conns' = UnsetFlags(swept.all, sorted)
        /\ conns' = sorted
        /\ removed_conns' = removed
        /\ metrics' = merged.metrics
        /\ snapshot' = snap
        /\ op' = "update"
        /\ UNCHANGED <<pattern, sort_mode>>

(***************************************************************************)
(* NetworkModel.filter / _filter_conns                                     *)
(***************************************************************************)
KeysOf(all) == [i \in 1..Len(all) |-> GetKey(all[i].data)]

\* _filter_conns(self._all_conns.values())
FilterConns(all, p) ==
    [conns   |-> KeysOf(SelectSeq(all, LAMBDA e : FilterValues(p, e.data))),
     removed |-> KeysOf(SelectSeq(all, LAMBDA e : ~FilterValues(p, e.data)))]

\* A filter that purges the entries it hides from the authoritative map.
FilterPurging(p) ==
    /\ pattern' = p
    /\ conns' = FilterConns(all_conns, p).conns
    /\ removed_conns' = FilterConns(all_conns, p).removed
    /\ all_conns' = SelectSeq(all_conns, LAMBDA e : FilterValues(p, e.data))
    /\ op' = "filter"
    /\ UNCHANGED <<sort_mode, metrics, snapshot>>

\* A filter that stores the pattern text before compiling it.
FilterStoringPattern(p) ==
    IF ~Compiles(p)
    THEN /\ pattern' = p
         /\ op' = "filter_error"
         /\ UNCHANGED <<all_conns, sort_mode, conns, removed_conns, metrics,
                        snapshot>>
    ELSE /\ pattern' = p
         /\ conns' = FilterConns(all_conns, p).conns
         /\ removed_conns' = FilterConns(all_conns, p).removed
         /\ op' = "filter"
         /\ UNCHANGED <<all_conns, sort_mode, metrics, snapshot>>

\* re.compile raises re.error before _pattern is assigned; the call then
\* ends there (op "filter_error").
Filter(p) ==
    IF ~Compiles(p)
    THEN /\ op' = "filter_error"
         /\ UNCHANGED <<all_conns, pattern, sort_mode, conns, removed_conns,
                        metrics, snapshot>>
    ELSE /\ pattern' = p
         /\ conns' = FilterConns(all_conns, p).conns
         /\ removed_conns' = FilterConns(all_conns, p).removed
         /\ op' = "filter"
         /\ UNCHANGED <<all_conns, sort_mode, metrics, snapshot>>

(***************************************************************************)
(* NetworkModel.reorder                                                    *)
(***************************************************************************)
Reorder(mode) ==
    /\ conns' = SortView(conns, all_conns, mode)
    /\ sort_mode' = mode
    /\ op' = "reorder"
    /\ UNCHANGED <<all_conns, pattern, removed_conns, metrics, snapshot>>

(***************************************************************************)
(* Specification                                                           *)
(***************************************************************************)
\* NetworkModel.__init__
Init ==
    /\ all_conns = <<>>
    /\ pattern = PatAll
    /\ sort_mode = "name"
    /\ conns = <<>>
    /\ removed_conns = <<>>
    /\ metrics = MetricsReset
    /\ snapshot = <<>>
    /\ op = "init"

\* The columns the user sorts by in the model.
SortModes == {"pid", "name", "status"}

Next ==
    \/ \E snap \in Snapshots :
          UpdateData(snap) /\ UNCHANGED <<ioVars, fmtVars, fetchVars, uiVars>>
    \/ \E p \in Patterns :
          Filter(p) /\ UNCHANGED <<ioVars, fmtVars, fetchVars, uiVars>>
    \/ \E mode \in SortModes :
          Reorder(mode) /\ UNCHANGED <<ioVars, fmtVars, fetchVars, uiVars>>

InitNetwork == Init /\ NoIO /\ NoFormat /\ NoFetch /\ NoUI
Spec == InitNetwork /\ [][Next]_vars

\* The reconciler fed with colliding keys and an invalid filter pattern.
EdgeSortModes == {"pid", "name"}
NextEdge ==
    \/ \E snap \in EdgeSnapshots :
          UpdateData(snap) /\ UNCHANGED <<ioVars, fmtVars, fetchVars, uiVars>>
    \/ \E p \in EdgePatterns :
          Filter(p) /\ UNCHANGED <<ioVars, fmtVars, fetchVars, uiVars>>
    \/ \E mode \in EdgeSortModes :
          Reorder(mode) /\ UNCHANGED <<ioVars, fmtVars, fetchVars, uiVars>>
SpecEdge == InitNetwork /\ [][NextEdge]_vars

\* The reconciler fed with a later sighting of a known key: lsof reports the
\* same pid and addresses under another command name and protocol, the
\* resolver gives another hostname, and the record has no state.
RecRenamed ==
    [pid |-> "10", name |-> "B", protocol |-> "UDP", laddr |-> "1.1:80",
     raddr |-> "9.9:443", ns |-> "www.x.com"]
SightRecords == {RecEst, RecListen, RecRenamed}
SightSnapshots == SeqsUpTo(SightRecords, MaxSnapshot)
SightPatterns == {PatAll, PatEst}
NextSight ==
    \/ \E snap \in SightSnapshots :
          UpdateData(snap) /\ UNCHANGED <<ioVars, fmtVars, fetchVars, uiVars>>
    \/ \E p \in SightPatterns :
          Filter(p) /\ UNCHANGED <<ioVars, fmtVars, fetchVars, uiVars>>
    \/ \E mode \in EdgeSortModes :
          Reorder(mode) /\ UNCHANGED <<ioVars, fmtVars, fetchVars, uiVars>>
SpecSight == InitNetwork /\ [][NextSight]_vars

(***************************************************************************)
(* NetworkIOModel._human_format                                            *)
(***************************************************************************)
\* A byte count is held as its base-1024 digits, least significant first,
\* with no leading zero digit (0 is the empty sequence): a Python int is
\* unbounded, and counts of 1024^9 and more matter to the unit table.
Base == 1024
RECURSIVE ToBase1024(_)
ToBase1024(n) ==
    IF n = 0 THEN <<>> ELSE <<n % Base>> \o ToBase1024(n \div Base)
RECURSIVE Value(_)
Value(nb) == IF nb = <<>> THEN 0 ELSE Head(nb) + Base * Value(Tail(nb))

\* The default of the units parameter.
Units == <<"", "Ki", "Mi", "Gi", "Ti", "Pi", "Ei", "Zi", "Yi">>

\* int(log(nb_bytes, 1024)) for nb_bytes > 0.  math.log works on doubles: a
\* count whose five leading base-1024 digits are all 1023 is so close to the
\* next power of 1024 that it gets the logarithm of that power.
FloatLogExp(nb) ==
    IF Len(nb) >= 5 /\ \A i \in (Len(nb) - 4)..Len(nb) : nb[i] = Base - 1
    THEN Len(nb)
    ELSE Len(nb) - 1

\* nb_bytes // 1024 ** exp
FloorDivPow(nb, exp) == SubSeq(nb, exp + 1, Len(nb))

\* str(n) for an int n >= 0
RECURSIVE DecimalStr(_)
DecimalStr(n) ==
    IF n < 10 THEN Digits[n + 1]
    ELSE DecimalStr(n \div 10) \o Digits[(n % 10) + 1]

\* _human_format(nb_bytes) as [raised, text]; units[exp] raises IndexError
\* past the end of the table.
HumanFormat(nb) ==
    IF nb = <<>> THEN [raised |-> "", text |-> "0 B"]
    ELSE LET exp == FloatLogExp(nb) IN
         IF exp >= Len(Units) THEN [raised |-> "IndexError", text |-> ""]
         ELSE [raised |-> "",
               text |-> DecimalStr(Value(FloorDivPow(nb, exp)))
                        \o " " \o Units[exp + 1] \o "B"]

\* Longest byte count, in base-1024 digits, passed to _human_format.
MaxDigits == 10

\* Byte counts: leading digit 1, 2 or 1023, the others 0 or 1023.
RECURSIVE DigitSeqs(_)
DigitSeqs(n) ==
    IF n = 0 THEN {<<>>}
    ELSE {<<d>> \o s : d \in {0, Base - 1}, s \in DigitSeqs(n - 1)}
ByteCounts ==
    {<<>>} \cup UNION {{Append(s, d) : s \in DigitSeqs(n - 1), d \in {1, 2, Base - 1}}
                       : n \in 1..MaxDigits}

NotCalled == [raised |-> "", text |-> ""]

InitFormat ==
    /\ nb_bytes \in ByteCounts /\ rendered = NotCalled
    /\ Init /\ NoIO /\ NoFetch /\ NoUI

HumanFormatCall ==
    /\ rendered' = HumanFormat(nb_bytes)
    /\ UNCHANGED nb_bytes

NextFormat == HumanFormatCall /\ UNCHANGED <<vars, ioVars, fetchVars, uiVars>>

SpecFormat == InitFormat /\ [][NextFormat]_fmtVars

(***************************************************************************)
(* NetworkIOModel                                                          *)
(***************************************************************************)
\* int(a / b) for b > 0: the quotient truncated towards zero.
TruncDiv(a, b) == IF a >= 0 THEN a \div b ELSE -((-a) \div b)

\* Latest clock reading, in seconds.
MaxTime == 2

\* What get_send_recv_bytes returns: (bytes_sent, bytes_recv, timestamp).
Counters == {1000, 3048, 3049}
Samples == Counters \X Counters \X (0..MaxTime)

\* NetworkIOModel.__init__: the first sample is the baseline.
InitIO ==
    \E s \in Samples :
        /\ bytes_sent = s[1] /\ bytes_recv = s[2] /\ timestamp = s[3]
        /\ bandwidth_in = 0 /\ bandwidth_out = 0
        /\ net_io = s /\ io_op = "init"
        /\ Init /\ NoFormat /\ NoFetch /\ NoUI

\* NetworkIOModel.update_data with the sample s; the OS counters and the
\* clock do not go back.  The first division raises ZeroDivisionError when
\* no time has elapsed, before anything is assigned.
IOUpdateData(s) ==
    /\ s[1] >= bytes_sent /\ s[2] >= bytes_recv /\ s[3] >= timestamp
    /\ net_io' = s
    /\ IF s[3] - timestamp = 0
       THEN /\ io_op' = "ZeroDivisionError"
            /\ UNCHANGED <<bytes_sent, bytes_recv, timestamp, bandwidth_in,
                           bandwidth_out>>
       ELSE /\ bandwidth_in' = TruncDiv(s[1] - bytes_sent, s[3] - timestamp)
            /\ bandwidth_out' = TruncDiv(s[2] - bytes_recv, s[3] - timestamp)
            /\ bytes_sent' = s[1] /\ bytes_recv' = s[2] /\ timestamp' = s[3]
            /\ io_op' = "update"

\* render_bandwidth_in / render_bandwidth_out
RenderBandwidthIn == HumanFormat(ToBase1024(bandwidth_in))
RenderBandwidthOut == HumanFormat(ToBase1024(bandwidth_out))

NextIO ==
    \E s \in Samples : IOUpdateData(s) /\ UNCHANGED <<vars, fmtVars, fetchVars, uiVars>>

SpecIO == InitIO /\ [][NextIO]_ioVars

(***************************************************************************)
(* network.py: running lsof and parsing its field output                   *)
(***************************************************************************)
\* The string with the characters cs.
Str(cs) == CHOOSE s \in DOMAIN Chars : Chars[s] = cs

\* line.startswith(prefix)
StartsWith(line, prefix) ==
    /\ Len(Chars[prefix]) <= Len(Chars[line])
    /\ SubSeq(Chars[line], 1, Len(Chars[prefix])) = Chars[prefix]

\* line[k:]
Slice(line, k) == Str(SubSeq(Chars[line], k + 1, Len(Chars[line])))

\* str.strip()
RECURSIVE StripChars(_)
StripChars(cs) ==
    IF cs = <<>> THEN cs
    ELSE IF Head(cs) = " " THEN StripChars(Tail(cs))
    ELSE IF cs[Len(cs)] = " " THEN StripChars(SubSeq(cs, 1, Len(cs) - 1))
    ELSE cs
Strip(s) == Str(StripChars(Chars[s]))

\* The places where sep occurs in s (1-based).
Occurrences(s, sep) ==
    {i \in 1..(Len(Chars[s]) - Len(Chars[sep]) + 1) :
        SubSeq(Chars[s], i, i + Len(Chars[sep]) - 1) = Chars[sep]}
Min(S) == CHOOSE x \in S : \A y \in S : x <= y

\* d[k] = v on a dict
Put(d, k, v) == [x \in DOMAIN d \cup {k} |-> IF x = k THEN v ELSE d[x]]

\* _get_lsof_output on a run [shell, installed, status, stdout] of the tool,
\* as [raised, out].  The command goes through the shell (shell=True): a
\* missing lsof is the shell's exit status 127, a CalledProcessError like
\* any other non-zero status, which is passed over; FileNotFoundError is
\* raised only when the shell itself cannot be started.  The text is held
\* as the sequence of its lines (splitlines).
GetLsofOutputStrict(run) ==
    IF ~run.shell THEN [raised |-> "RuntimeError", out |-> <<>>]
    ELSE IF ~run.installed \/ run.status # 0
    THEN [raised |-> "CalledProcessError", out |-> <<>>]
    ELSE [raised |-> "", out |-> run.stdout]

GetLsofOutput(run) ==
    IF ~run.shell THEN [raised |-> "RuntimeError", out |-> <<>>]
    ELSE IF ~run.installed \/ run.status # 0
    THEN [raised |-> "", out |-> <<>>]
    ELSE [raised |-> "", out |-> run.stdout]

\* _set_addr: addr.split("->", 1), both parts stripped
SetAddr(d, addr) ==
    IF Occurrences(addr, "->") # {}
    THEN LET i == Min(Occurrences(addr, "->"))
             cs == Chars[addr]
         IN  Put(Put(d, "laddr", Str(StripChars(SubSeq(cs, 1, i - 1)))),
                 "raddr", Str(StripChars(SubSeq(cs, i + 2, Len(cs)))))
    ELSE Put(Put(d, "laddr", Strip(addr)), "raddr", "")

\* _has_described_connection
HasDescribedConnection(line) == StartsWith(line, "TQS")

\* _set_attr_from_line
SetAttrFromLine(current, line) ==
    IF StartsWith(line, "p") THEN Put(current, "pid", Slice(line, 1))
    ELSE IF StartsWith(line, "c") THEN Put(current, "name", Slice(line, 1))
    ELSE IF StartsWith(line, "P") THEN Put(current, "protocol", Slice(line, 1))
    ELSE IF StartsWith(line, "n") THEN SetAddr(current, Slice(line, 1))
    ELSE IF StartsWith(line, "TST") THEN Put(current, "status", Slice(line, 4))
    ELSE current

\* _copy_connection; conn["pid"] / conn["name"] raise KeyError when missing
CanCopy(conn) == {"pid", "name"} \subseteq DOMAIN conn
\* A copy that carries every attribute over.
CopyConnectionWhole(conn) == conn
CopyConnection(conn) == [k \in {"pid", "name"} |-> conn[k]]

\* The loop of _get_lsof_conns over the lines, as [raised, conns]
RECURSIVE ParseLines(_, _, _)
ParseLines(lines, curr, acc) ==
    IF lines = <<>> THEN [raised |-> "", conns |-> acc]
    ELSE Bind(SetAttrFromLine(curr, Head(lines)), LAMBDA c :
            IF HasDescribedConnection(Head(lines))
            THEN IF CanCopy(c)
                 THEN ParseLines(Tail(lines), CopyConnection(c), Append(acc, c))
                 ELSE [raised |-> "KeyError", conns |-> <<>>]
            ELSE ParseLines(Tail(lines), c, acc))

\* _get_lsof_conns
GetLsofConns(run) ==
    IF GetLsofOutput(run).raised # ""
    THEN [raised |-> GetLsofOutput(run).raised, conns |-> <<>>]
    ELSE ParseLines(GetLsofOutput(run).out, <<>>, <<>>)

\* The lines lsof -FcpPnT -Q prints, and two with tags the parser does not
\* know (file descriptor, receive queue).
LinePid2 == "p2"
LinePid10 == "p10"
LineCmdB == "cB"
LineCmda == "ca"
LineTcp == "PTCP"
LineListenAddr == "n80.1:22"
LineConnAddr == "n1.1:80->9.9:443"
LineListen == "TST=LISTEN"
LineEstablished == "TST=ESTABLISHED"
LineClose == "TST=CLOSE"
LineSendQueue == "TQS=0"
LineFd == "f4"
LineRecvQueue == "TQR=0"
UnknownLines == {LineFd, LineRecvQueue}

\* One socket as lsof prints it: of a new process, or a further one of the
\* process before (no p and c lines; here without TCP state).
BlockListen ==
    <<LinePid2, LineCmdB, LineTcp, LineListenAddr, LineListen, LineSendQueue>>
BlockEstablished ==
    <<LinePid10, LineCmda, LineTcp, LineConnAddr, LineEstablished,
      LineSendQueue>>
\* The socket of BlockEstablished once it has been closed.
BlockClose ==
    <<LinePid10, LineCmda, LineTcp, LineConnAddr, LineClose, LineSendQueue>>
BlockFurther == <<LineTcp, LineListenAddr, LineSendQueue>>
BlockBare == <<LineSendQueue>>
Blocks == {BlockListen, BlockEstablished, BlockFurther, BlockBare}

\* Most sockets in one dump.
MaxBlocks == 2

RECURSIVE Concat(_)
Concat(ss) == IF ss = <<>> THEN <<>> ELSE Head(ss) \o Concat(Tail(ss))
CleanDumps == {Concat(bs) : bs \in SeqsUpTo(Blocks, MaxBlocks)}

\* list.insert(i, line)
Insert(lines, i, line) ==
    SubSeq(lines, 1, i) \o <<line>> \o SubSeq(lines, i + 1, Len(lines))
Dumps ==
    CleanDumps \cup
    {Insert(d[1], d[2], d[3]) :
        d \in {e \in CleanDumps \X (0..(MaxBlocks * 6)) \X UnknownLines :
                 e[2] <= Len(e[1])}}

NotFetched == [called |-> FALSE, raised |-> "", conns |-> <<>>]
Fetched(r) == [called |-> TRUE, raised |-> r.raised, conns |-> r.conns]

InitParse ==
    /\ lsof \in {[shell |-> TRUE, installed |-> TRUE, status |-> 0,
                  stdout |-> d] : d \in Dumps}
    /\ fetched = NotFetched
    /\ Init /\ NoIO /\ NoFormat /\ NoUI

GetLsofConnsCall ==
    /\ fetched' = Fetched(GetLsofConns(lsof))
    /\ UNCHANGED lsof

NextParse == GetLsofConnsCall /\ UNCHANGED <<vars, ioVars, fmtVars, uiVars>>

SpecParse == InitParse /\ [][NextParse]_fetchVars

(***************************************************************************)
(* network.get_connections and the poll cycle                              *)
(***************************************************************************)
\* _get_addr: addr_port.split(":")[0]
GetAddr(addr_port) ==
    IF Occurrences(addr_port, ":") = {} THEN addr_port
    ELSE Str(SubSeq(Chars[addr_port], 1, Min(Occurrences(addr_port, ":")) - 1))

\* socket.gethostbyaddr: the names the resolver knows; for any other
\* address it raises herror.
DnsTable == [a \in {"9.9"} |-> "www.x.com"]

\* ".".join(res.rsplit(".", maxsplit=2)[1:]): what follows the first of the
\* last two dots.
LastTwoLabels(res) ==
    LET dots == Occurrences(res, ".")
        cuts == {i \in dots : Cardinality({j \in dots : j > i}) < 2}
    IN  Slice(res, Min(cuts))

\* socket.gethostbyaddr on the table, as [raised, name]
GetHostByAddr(addr) ==
    IF addr \in DOMAIN DnsTable THEN [raised |-> "", name |-> DnsTable[addr]]
    ELSE [raised |-> "herror", name |-> ""]

\* _get_hostname_from_conn after the lookup: res stays None when the lookup
\* raised herror, gaierror or OSError
HostnameOf(res) ==
    IF res.raised # "" THEN ""
    ELSE IF Occurrences(res.name, ".") # {} THEN LastTwoLabels(res.name)
    ELSE res.name

\* _get_hostname_from_conn
HostnameFromConn(remote) == HostnameOf(GetHostByAddr(GetAddr(remote)))

\* get_connections, as [raised, conns]; conn["raddr"] raises KeyError on a
\* record without address line.
GetConnections(run) ==
    \* results = _get_lsof_conns()
    LET results == GetLsofConns(run) IN
    IF results.raised # "" THEN results
    ELSE IF \E i \in 1..Len(results.conns) :
                "raddr" \notin DOMAIN results.conns[i]
    THEN [raised |-> "KeyError", conns |-> <<>>]
    ELSE [raised |-> "",
          conns |-> [i \in 1..Len(results.conns) |->
                        Put(results.conns[i], "ns",
                            HostnameFromConn(results.conns[i].raddr))]]

\* What lsof does in one poll: it prints sockets, it exits with status 1
\* (with or without output), it is not installed (the shell's status 127),
\* or the shell cannot be started.
PollDumps ==
    {BlockListen, BlockEstablished, BlockListen \o BlockEstablished,
     BlockListen \o BlockFurther}
LsofRuns ==
    {[shell |-> TRUE, installed |-> TRUE, status |-> 0, stdout |-> d] :
        d \in PollDumps}
    \cup {[shell |-> TRUE, installed |-> TRUE, status |-> 1, stdout |-> d] :
            d \in {<<>>, BlockListen}}
    \cup {[shell |-> TRUE, installed |-> FALSE, status |-> 127, stdout |-> <<>>],
          [shell |-> FALSE, installed |-> TRUE, status |-> 0, stdout |-> <<>>]}

\* NetworkModel.update_data with its fetch: metrics.reset(), then
\* get_connections(), whose exception ends the cycle there.
UpdateDataPolling(run) ==
    \E r \in {GetConnections(run)} :
        /\ lsof' = run
        /\ fetched' = Fetched(r)
        /\ IF r.raised = "" THEN UpdateData(r.conns)
           ELSE /\ metrics' = MetricsReset
                /\ op' = "update_error"
                /\ UNCHANGED <<all_conns, pattern, sort_mode, conns,
                               removed_conns, snapshot>>

PollPatterns == {PatAll, PatEst}

NextPoll ==
    \/ \E run \in LsofRuns :
          UpdateDataPolling(run) /\ UNCHANGED <<ioVars, fmtVars, uiVars>>
    \/ \E p \in PollPatterns :
          Filter(p) /\ UNCHANGED <<ioVars, fmtVars, fetchVars, uiVars>>

SpecPoll == InitNetwork /\ [][NextPoll]_<<vars, fetchVars>>

(***************************************************************************)
(* Resolving one remote address                                            *)
(***************************************************************************)
\* What the lookup does: it gives a name, or it raises.
Lookups ==
    {[raised |-> "", name |-> n] : n \in HostNames}
    \cup {[raised |-> e, name |-> ""] : e \in {"herror", "gaierror", "OSError"}}

InitHost ==
    /\ resolver \in Lookups
    /\ hostname = [called |-> FALSE, text |-> ""]
    /\ Init /\ NoIO /\ NoFormat /\ NoFetch /\ NoPanel /\ NoApp /\ NoTable

GetHostnameFromConnCall ==
    /\ hostname' = [called |-> TRUE, text |-> HostnameOf(resolver)]
    /\ UNCHANGED resolver

NextHost ==
    GetHostnameFromConnCall
    /\ UNCHANGED <<vars, ioVars, fmtVars, fetchVars, panelVars, appVars,
                   tableVars>>

SpecHost == InitHost /\ [][NextHost]_hostVars

(***************************************************************************)
(* The help panel: resizes and toggles                                     *)
(***************************************************************************)
\* Widest terminal of the model.
MaxScreenWidth == 200

\* ResponsiveWidget.watch_r_renderable_width runs when the reactive changes.
WatchRenderableWidth(old_width, new_width) ==
    IF new_width # old_width THEN GetPattern(new_width) ELSE col_pattern

\* LsofApp._update_renderable_width
UpdateRenderableWidth(st, w) ==
    /\ r_renderable_width' = GetRenderableWidth(st, w)
    /\ col_pattern' = WatchRenderableWidth(r_renderable_width,
                                           GetRenderableWidth(st, w))
    /\ table_rows' = WatchColumns(r_renderable_width,
                                  GetRenderableWidth(st, w), table_rows)
    /\ UNCHANGED r_show_icons

\* LsofApp.on_resize
OnResize(width) ==
    /\ screen_width' = width
    /\ UpdateRenderableWidth(help_panel_st, width)
    /\ UNCHANGED help_panel_st

\* LsofApp.action_toggle_shortcut
ActionToggleShortcut ==
    /\ help_panel_st' = Toggle(help_panel_st)
    /\ UpdateRenderableWidth(Toggle(help_panel_st), screen_width)
    /\ UNCHANGED screen_width

InitPanel == Init /\ NoIO /\ NoFormat /\ NoFetch /\ NoUI

NextPanel ==
    \/ \E width \in 0..MaxScreenWidth :
          OnResize(width)
          /\ UNCHANGED <<vars, ioVars, fmtVars, fetchVars, appVars, hostVars>>
    \/ ActionToggleShortcut
          /\ UNCHANGED <<vars, ioVars, fmtVars, fetchVars, appVars, hostVars>>

SpecPanel == InitPanel /\ [][NextPanel]_<<panelVars, tableVars>>

(***************************************************************************)
(* LsofApp: the refresh timer, its callback and the command handlers       *)
(***************************************************************************)
\* What lsof does in one poll of the application.
AppRuns ==
    {[shell |-> TRUE, installed |-> TRUE, status |-> 0, stdout |-> d] :
        d \in {BlockListen, BlockEstablished, BlockListen \o BlockEstablished,
               BlockListen \o BlockClose, BlockBare}}
    \cup {[shell |-> FALSE, installed |-> TRUE, status |-> 0, stdout |-> <<>>]}
\* What get_send_recv_bytes returns in the application.
AppSamples == {s \in Samples : s[1] = s[2]}
AppPatterns == {PatAll, PatEst, PatBad}

\* An exception that leaves a handler or a callback goes to the framework,
\* which stops the application: nothing runs after it.
Running == app_raised = ""
\* The handlers and the callback are plain functions without await: the
\* event loop starts the next one when the one before has returned.
LoopFree == Running /\ pc = "idle"

\* LsofApp.__init__: the models are built, the first sample is the
\* baseline, no timer yet.
InitApp ==
    /\ Init /\ NoFormat /\ NoFetch /\ NoPanel /\ NoHost /\ NoApp /\ NoTable
    /\ bytes_sent = 1000 /\ bytes_recv = 1000 /\ timestamp = 0
    /\ bandwidth_in = 0 /\ bandwidth_out = 0
    /\ net_io = <<1000, 1000, 0>> /\ io_op = "init"

\* LsofApp.on_mount
OnMount ==
    /\ LoopFree /\ timer = "none"
    /\ timer' = "active"
    /\ handler' = "on_mount"
    \* NetworkDataTable.on_mount: the columns, then the rows
    /\ \E shown \in {UpdateDisplayRows(UpdateDisplayColumns, all_conns, conns,
                                        removed_conns, r_show_icons)} :
          /\ table_rows' = shown.rows
          /\ app_raised' = shown.raised
    /\ UNCHANGED <<pc, r_show_icons>>

\* The interval timer calls _refresh_datatable.
TimerFire ==
    /\ LoopFree /\ timer = "active"
    /\ pc' = "pause"
    /\ handler' = "_refresh_datatable"
    /\ UNCHANGED <<timer, app_raised, tableVars>>

\* A pause that leaves the timer active.
RefreshPauseForgetting ==
    /\ pc = "pause"
    /\ pc' = "update_data"
    /\ UNCHANGED <<timer, handler, app_raised, tableVars>>

\* _refresh_datatable: self.timer.pause()
RefreshPause ==
    /\ pc = "pause"
    /\ timer' = "paused"
    /\ pc' = "update_data"
    /\ UNCHANGED <<handler, app_raised, tableVars>>

\* _refresh_datatable: self.network.update_data(); an exception ends the
\* callback there.
RefreshUpdateData(run) ==
    /\ pc = "update_data"
    /\ UpdateDataPolling(run)
    /\ app_raised' = fetched'.raised
    /\ pc' = IF fetched'.raised = "" THEN "bandwidth" ELSE "idle"
    /\ UNCHANGED <<timer, handler, tableVars>>

\* _refresh_datatable: self.bandwidth.update_data(self.interface)
RefreshBandwidth(s) ==
    /\ pc = "bandwidth"
    /\ IOUpdateData(s)
    /\ app_raised' = IF io_op' = "update" THEN "" ELSE io_op'
    /\ pc' = IF io_op' = "update" THEN "metrics_display" ELSE "idle"
    /\ UNCHANGED <<timer, handler, tableVars>>

\* _refresh_datatable: self._update_metrics_display(), which renders the
\* two bandwidths.
RefreshMetricsDisplay ==
    /\ pc = "metrics_display"
    /\ app_raised' = IF RenderBandwidthIn.raised # ""
                      THEN RenderBandwidthIn.raised
                      ELSE RenderBandwidthOut.raised
    /\ pc' = IF RenderBandwidthIn.raised = "" /\ RenderBandwidthOut.raised = ""
             THEN "table_display" ELSE "idle"
    /\ UNCHANGED <<timer, handler, tableVars>>

\* _refresh_datatable: self.query_one(NetworkDataTable).update_display()
RefreshTableDisplay ==
    /\ pc = "table_display"
    /\ \E shown \in {UpdateDisplayRows(table_rows, all_conns, conns,
                                        removed_conns, r_show_icons)} :
          /\ table_rows' = shown.rows
          /\ app_raised' = shown.raised
          /\ pc' = IF shown.raised = "" THEN "resume" ELSE "idle"
    /\ UNCHANGED <<timer, handler, r_show_icons>>

\* _refresh_datatable: self.timer.resume(), the last statement
RefreshResume ==
    /\ pc = "resume"
    /\ timer' = "active"
    /\ pc' = "idle"
    /\ UNCHANGED <<handler, app_raised, tableVars>>

\* LsofApp.on_input_changed: network.filter(event.value) is not guarded, so
\* re.error leaves the handler before the table is refreshed; then
\* update_display().
OnInputChanged(value) ==
    /\ LoopFree /\ timer # "none"
    /\ Filter(value)
    /\ handler' = "on_input_changed"
    /\ \E shown \in {UpdateDisplayRows(table_rows, all_conns', conns',
                                        removed_conns', r_show_icons)} :
          /\ app_raised' = IF op' = "filter_error" THEN "re.error"
                            ELSE shown.raised
          /\ table_rows' = IF op' = "filter_error" THEN table_rows
                            ELSE shown.rows
    /\ UNCHANGED <<timer, pc, r_show_icons>>

\* LsofApp.action_sort
ActionSort(col_key) ==
    /\ LoopFree /\ timer # "none"
    /\ Reorder(col_key)
    /\ handler' = "action_sort"
    /\ UNCHANGED <<timer, pc, app_raised, tableVars>>

\* LsofApp.action_toggle_icons: the table's watcher builds the columns anew.
ActionToggleIcons ==
    /\ LoopFree /\ timer # "none"
    /\ r_show_icons' = ~r_show_icons
    /\ table_rows' = WatchColumns(r_show_icons, ~r_show_icons, table_rows)
    /\ handler' = "action_toggle_icons"
    /\ UNCHANGED <<timer, pc, app_raised>>

\* What the application leaves alone.
restVars == <<fmtVars, panelVars, hostVars>>

\* The steps of the callback once it has been called.
RefreshSteps ==
    \/ RefreshPause /\ UNCHANGED <<vars, ioVars, fetchVars, restVars>>
    \/ \E run \in AppRuns :
          RefreshUpdateData(run) /\ UNCHANGED <<ioVars, restVars>>
    \/ \E s \in AppSamples :
          RefreshBandwidth(s) /\ UNCHANGED <<vars, fetchVars, restVars>>
    \/ RefreshMetricsDisplay /\ UNCHANGED <<vars, ioVars, fetchVars, restVars>>
    \/ RefreshTableDisplay /\ UNCHANGED <<vars, ioVars, fetchVars, restVars>>
    \/ RefreshResume /\ UNCHANGED <<vars, ioVars, fetchVars, restVars>>

Mount == OnMount /\ UNCHANGED <<vars, ioVars, fetchVars, restVars>>
Tick == TimerFire /\ UNCHANGED <<vars, ioVars, fetchVars, restVars>>

NextApp ==
    \/ Mount
    \/ Tick
    \/ RefreshSteps
    \/ \E value \in AppPatterns :
          OnInputChanged(value) /\ UNCHANGED <<ioVars, fetchVars, restVars>>
    \/ \E col_key \in EdgeSortModes :
          ActionSort(col_key) /\ UNCHANGED <<ioVars, fetchVars, restVars>>
    \/ ActionToggleIcons /\ UNCHANGED <<vars, ioVars, fetchVars, restVars>>

appState == <<vars, ioVars, fetchVars, appVars, tableVars>>

SpecApp == InitApp /\ [][NextApp]_appState

\* The event loop runs what is ready: the mount, the timer when it is
\* active, and the callback to its end.  The user's commands may never come.
SpecAppLive ==
    /\ InitApp /\ [][NextApp]_appState
    /\ WF_appState(Mount) /\ WF_appState(Tick) /\ WF_appState(RefreshSteps)

(***************************************************************************)
(* Vocabulary of the properties                                            *)
(***************************************************************************)
Range(seq) == {seq[i] : i \in 1..Len(seq)}
Count(seq, x) == Cardinality({i \in 1..Len(seq) : seq[i] = x})
SnapKeys(snap) == {GetKey(snap[i]) : i \in 1..Len(snap)}

\* The status of the last record of snap that has the given key.
LatestStatus(snap, key) ==
    LET last == CHOOSE i \in 1..Len(snap) :
                    /\ GetKey(snap[i]) = key
                    /\ \A j \in (i + 1)..Len(snap) : GetKey(snap[j]) # key
    IN  Get(snap[last], "status", "")

\* lit is a prefix of value, letter case ignored.
IsPrefixNoCase(lit, value) ==
    /\ Len(lit) <= Len(value)
    /\ \A i \in 1..Len(lit) : LowerChar(lit[i]) = LowerChar(value[i])

\* lit occurs in value at some position after the first.
OccursInside(lit, value) ==
    \E k \in 1..(Len(value) - Len(lit)) :
        \A i \in 1..Len(lit) : LowerChar(lit[i]) = LowerChar(value[k + i])

\* The text a pattern stands for, its leading anchor dropped.
Literal(p) == IF Chars[p] # <<>> /\ Head(Chars[p]) = "^" THEN Tail(Chars[p]) ELSE Chars[p]

\* The pattern is a prefix of at least one of the seven field values.
PrefixOfSomeField(p, data) ==
    \E i \in 1..Len(Attributes) : IsPrefixNoCase(Literal(p), Chars[data[Attributes[i]]])

\* int(s) for a string of decimal digits.
RECURSIVE DigitsToInt(_)
DigitsToInt(cs) ==
    IF cs = <<>> THEN 0
    ELSE 10 * DigitsToInt(SubSeq(cs, 1, Len(cs) - 1)) + (IndexIn(cs[Len(cs)], Digits) - 1)
ToInt(s) == DigitsToInt(Chars[s])

\* The view is in non-descending order of the lower-cased attribute.
SortedNoCase(view, all, mode) ==
    \A i, j \in 1..Len(view) :
        i < j => ~StrLess(SortKey(all, view[j], mode), SortKey(all, view[i], mode))

\* The view is in non-descending order of the integer value of the pid.
SortedByPidValue(view, all) ==
    \A i, j \in 1..Len(view) :
        i < j => ToInt(Entry(all, view[i]).data.pid) <= ToInt(Entry(all, view[j]).data.pid)

(***************************************************************************)
(* Properties                                                              *)
(***************************************************************************)

\* C1: idempotence of update_data.  When two consecutive update cycles get
\* the identical snapshot, the second one adds no entry to the authoritative
\* map or to the view and leaves the removal list empty, whatever the filter.
C1_Idempotence ==
    [][(op = "update" /\ op' = "update" /\ snapshot' = snapshot)
         => /\ removed_conns' = <<>>
            /\ Keys(all_conns') \subseteq Keys(all_conns)
            /\ Range(conns') \subseteq Range(conns)]_vars

\* C2: identity stability.  An entry whose key is in the snapshots of two
\* consecutive update cycles is kept by the second cycle: it stays in the
\* map, it is not in the removal list, and its status is the latest one.
C2_IdentityStability ==
    [][(op = "update" /\ op' = "update")
         => \A k \in (SnapKeys(snapshot) \cap SnapKeys(snapshot')) \cap Keys(all_conns) :
               /\ k \in Keys(all_conns')
               /\ k \notin Range(removed_conns')
               /\ Entry(all_conns', k).data.status = LatestStatus(snapshot', k)]_vars

\* C3: removal correctness.  A key of the previous cycle's snapshot that is
\* absent from this cycle's snapshot is exactly once in the removal list this
\* cycle produces, and no key that the latest snapshot lacks is in the view
\* after this cycle or after any later filter or reorder call.
C3_RemovalCorrectness ==
    [][/\ op' = "update"
           => \A k \in SnapKeys(snapshot) \ SnapKeys(snapshot') :
                  Count(removed_conns', k) = 1
       /\ Range(conns') \subseteq SnapKeys(snapshot')]_vars

\* C4: filter semantics.  After filter(p) the view holds exactly the entries
\* of the map that have p, letter case ignored, as a prefix of one of their
\* seven field values, and the removal list holds exactly the other entries;
\* p occurring further inside a value does not count.
C4_FilterSemantics ==
    op = "filter" =>
        LET matching == {k \in Keys(all_conns) :
                            PrefixOfSomeField(pattern, Entry(all_conns, k).data)}
        IN  /\ Range(conns) = matching
            /\ Range(removed_conns) = Keys(all_conns) \ matching
            /\ Len(conns) + Len(removed_conns) = Len(all_conns)

\* A filter has kept one entry and hidden another one, and the hidden entry
\* has the pattern inside one of its values, not at the start.
C4_Witness ==
    /\ op = "filter"
    /\ pattern = Pat80
    /\ conns # <<>>
    /\ \E k \in Range(removed_conns) :
          \E i \in 1..Len(Attributes) :
              OccursInside(Literal(pattern), Chars[Entry(all_conns, k).data[Attributes[i]]])

\* C5: filter only hides.  A filter call leaves the authoritative map as it
\* was, and a filter with the match-everything pattern puts every entry of
\* the map into the view and none into the removal list.
C5_FilterOnlyHides ==
    [][op' = "filter"
         => /\ all_conns' = all_conns
            /\ pattern' = PatAll
                  => /\ Range(conns') = Keys(all_conns)
                     /\ removed_conns' = <<>>]_vars

\* The match-everything filter has brought back an entry that was hidden
\* while an update cycle ran: the entry is in the view with its freshness
\* mark still set, which no entry visible during a cycle has.
C5_Witness ==
    /\ op = "filter"
    /\ pattern = PatAll
    /\ \E k \in Range(conns) : Entry(all_conns, k).flag_updated

\* C6: after an update cycle every key of the snapshot is in the map,
\* whether or not its record matches the active filter.
C6_SnapshotKeysInMap ==
    op = "update" => SnapKeys(snapshot) \subseteq Keys(all_conns)

\* C7: after an update cycle every entry of the map, hidden ones included,
\* has a key of that cycle's snapshot.
C7_SweepCoversMap ==
    op = "update" => Keys(all_conns) \subseteq SnapKeys(snapshot)

\* C8: in every state the view is exactly the set of the entries of the map
\* whose current field values match the active filter.
C8_ViewIsFilteredMap ==
    Range(conns) = {k \in Keys(all_conns) :
                       FilterValues(pattern, Entry(all_conns, k).data)}

\* C9: after every operation the view is in ascending order of the active
\* sort attribute (in the order list.sort(key=lower) produces, the weakest
\* reading of "sorted by the attribute").
C9_ViewSorted ==
    SortedNoCase(conns, all_conns, sort_mode)

\* C10: after update and reorder the view is ordered by the integer value of
\* the pid when the sort attribute is pid, and in case-insensitive
\* lexicographic order for every other attribute.
C10_SortSemantics ==
    op \in {"update", "reorder"} =>
        IF sort_mode = "pid" THEN SortedByPidValue(conns, all_conns)
        ELSE SortedNoCase(conns, all_conns, sort_mode)

\* Counts over a view: total, ESTABLISHED, LISTEN.
CountStatus(view, all, st) ==
    Cardinality({i \in 1..Len(view) : Entry(all, view[i]).data.status = st})

\* C11: after every update cycle the metrics are the counts over the view
\* as it stands at the end of the cycle: total = number of view entries,
\* established / listening = number of view entries with that status.
C11_MetricsCountView ==
    op = "update" =>
        /\ metrics.nb_conns = Len(conns)
        /\ metrics.actives = CountStatus(conns, all_conns, "ESTABLISHED")
        /\ metrics.listening = CountStatus(conns, all_conns, "LISTEN")

\* C13: the view holds no key twice and every key of the view is a key of
\* the authoritative map, in every reachable state.
C13_ViewKeysUniqueInMap ==
    /\ \A i, j \in 1..Len(conns) : conns[i] = conns[j] => i = j
    /\ \A i \in 1..Len(conns) : conns[i] \in Keys(all_conns)

\* An update cycle fed the same key twice, with an entry swept and one kept.
C13_Witness ==
    /\ op = "update" /\ Len(snapshot) = 2
    /\ GetKey(snapshot[1]) = GetKey(snapshot[2])
    /\ removed_conns /= <<>> /\ conns /= <<>>

\* The (pid, laddr, raddr) triple of a record.
Triple(d) == <<d.pid, d.laddr, d.raddr>>

\* C12: under the empty filter, two records of one snapshot whose triples
\* differ are held as two distinct entries of the authoritative map after
\* the cycle, each with its own triple.
C12_StructuralKey ==
    (op = "update" /\ pattern = PatAll) =>
        \A i, j \in 1..Len(snapshot) :
            Triple(snapshot[i]) # Triple(snapshot[j]) =>
                \E a, b \in 1..Len(all_conns) :
                    /\ a # b
                    /\ Triple(all_conns[a].data) = Triple(snapshot[i])
                    /\ Triple(all_conns[b].data) = Triple(snapshot[j])

\* C20: a filter call with an invalid pattern leaves the pattern, the view,
\* the removal list and the map as they were, and the active pattern is
\* always one that compiled, so later cycles filter with the previous one.
C20_InvalidPatternNoChange ==
    /\ [](Compiles(pattern))
    /\ [][op' = "filter_error" =>
            UNCHANGED <<pattern, conns, removed_conns, all_conns, sort_mode,
                        metrics>>]_vars

\* A rejected filter call on a model with an active filter, a non-empty view
\* and a non-empty removal list.
C20_Witness ==
    /\ op = "filter_error" /\ pattern = PatEst
    /\ conns # <<>> /\ removed_conns # <<>>

\* C14: every completed NetworkIOModel.update_data sets the outbound rate to
\* the truncated quotient of the bytes-sent delta by the elapsed time and
\* the inbound rate to that of the bytes-received delta; from the baseline
\* (bytes_sent 1000, t 0) the sample (bytes_sent 3048, t 1) renders the
\* outbound rate as "2 KiB".
C14_RatePerDirection ==
    [][io_op' = "update" =>
        /\ bandwidth_out' = TruncDiv(bytes_sent' - bytes_sent,
                                     timestamp' - timestamp)
        /\ bandwidth_in' = TruncDiv(bytes_recv' - bytes_recv,
                                    timestamp' - timestamp)
        /\ (bytes_sent = 1000 /\ timestamp = 0 /\ bytes_sent' = 3048
                /\ timestamp' = 1)
            => RenderBandwidthOut' = [raised |-> "", text |-> "2 KiB"]]_ioVars

\* C15: an update_data call whose sample has the timestamp of the baseline
\* does not raise, sets both rates to zero and stores the sample as the new
\* baseline.
C15_ZeroElapsed ==
    [][net_io'[3] = timestamp =>
        /\ io_op' = "update"
        /\ bandwidth_in' = 0 /\ bandwidth_out' = 0
        /\ <<bytes_sent', bytes_recv', timestamp'>> = net_io']_ioVars

\* What the rendering of a byte count b >= 0 is to be: "0 B" for 0, else
\* b // 1024^e, a space, the e-th unit and "B", with e the largest exponent
\* such that 1024^e <= b, at most the last index of the unit table.
ClampedExp(nb) == IF Len(nb) > Len(Units) THEN Len(Units) - 1 ELSE Len(nb) - 1
ExpectedText(nb) ==
    IF nb = <<>> THEN "0 B"
    ELSE DecimalStr(Value(SubSeq(nb, ClampedExp(nb) + 1, Len(nb))))
         \o " " \o Units[ClampedExp(nb) + 1] \o "B"

\* C16: _human_format renders every byte count b >= 0, never raising: the
\* text is the expected one, with the exponent clamped to the unit table.
C16_HumanFormatTotal ==
    rendered # NotCalled =>
        rendered = [raised |-> "", text |-> ExpectedText(nb_bytes)]

\* Positions of the terminator lines of a dump, and the i-th of them.
Terminators(lines) == {i \in 1..Len(lines) : StartsWith(lines[i], "TQS")}
TermPos(lines, i) ==
    CHOOSE t \in Terminators(lines) :
        Cardinality({u \in Terminators(lines) : u <= t}) = i
Max(S) == CHOOSE x \in S : \A y \in S : x >= y
\* The latest line with the given tag among lines lo..hi (0: none).
LastWith(lines, lo, hi, tag) ==
    Max({0} \cup {j \in lo..hi : StartsWith(lines[j], tag)})
StripUnknown(lines) == SelectSeq(lines, LAMBDA l : l \notin UnknownLines)

\* C17: parsing a dump gives one record per terminator line, in the order
\* of the terminators (the i-th record has the pid of the latest p line
\* before the i-th terminator and the state of the latest TST line of its
\* own block), and the records are those of the dump without its lines of
\* unknown tags.
C17_OneRecordPerTerminator ==
    fetched.called =>
        LET lines == lsof.stdout IN
        /\ fetched.raised = ""
        /\ Len(fetched.conns) = Cardinality(Terminators(lines))
        /\ \A i \in 1..Len(fetched.conns) :
              LET t == TermPos(lines, i)
                  prev == IF i = 1 THEN 0 ELSE TermPos(lines, i - 1)
                  st == LastWith(lines, prev + 1, t, "TST")
              IN  /\ fetched.conns[i].pid =
                        Slice(lines[LastWith(lines, 1, t, "p")], 1)
                  /\ st # 0 => fetched.conns[i].status = Slice(lines[st], 4)
        /\ fetched.conns = ParseLines(StripUnknown(lines), <<>>, <<>>).conns

\* The latest step was a poll cycle.
Polled == fetched.called /\ op \in {"update", "update_error"}

\* C18: a poll with lsof not installed ends in an error raised to the
\* caller; it does not go on as an update with an empty snapshot.
C18_MissingToolIsFatal ==
    (Polled /\ ~lsof.installed) => (fetched.raised # "" /\ op = "update_error")

\* C19: a poll in which lsof exits non-zero without output fetches the
\* empty sequence without raising, and the update cycle completes with the
\* empty snapshot.
C19_NonZeroExitIsEmpty ==
    (Polled /\ lsof.shell /\ lsof.installed /\ lsof.status # 0
        /\ lsof.stdout = <<>>) =>
        /\ fetched.raised = "" /\ fetched.conns = <<>>
        /\ op = "update" /\ snapshot = <<>>

\* Such a poll, completed: it swept the entries of the poll before.
C19_Witness ==
    /\ Polled /\ lsof.shell /\ lsof.installed /\ lsof.status # 0
    /\ lsof.stdout = <<>>
    /\ op = "update" /\ removed_conns # <<>> /\ conns = <<>>

\* C25: after every update cycle no entry of the authoritative map is
\* marked fresh, the entries hidden from the view included.
C25_NoFreshMarkAfterUpdate ==
    op = "update" => \A i \in 1..Len(all_conns) : ~all_conns[i].flag_updated

\* The ordering rule of the view: the integer value for pid, lower-cased
\* string order for every other attribute.
SortedByRule(view, all, mode) ==
    IF mode = "pid" THEN SortedByPidValue(view, all)
    ELSE SortedNoCase(view, all, mode)

\* What a step may do to the view and to the remembered attribute.
ReorderStep ==
    /\ (op' = "reorder") =>
           /\ SortedByRule(conns', all_conns', sort_mode')
           /\ Len(conns') = Len(conns)
           /\ Range(conns') = Range(conns)
           /\ UNCHANGED <<all_conns, removed_conns, pattern, metrics>>
    /\ (op' = "update") => SortedByRule(conns', all_conns', sort_mode')
    /\ (op' # "reorder") => (sort_mode' = sort_mode)

\* The same with the order the code sorts in for every attribute.
ReorderStepLowerCased ==
    /\ (op' = "reorder") =>
           /\ SortedNoCase(conns', all_conns', sort_mode')
           /\ Len(conns') = Len(conns)
           /\ Range(conns') = Range(conns)
           /\ UNCHANGED <<all_conns, removed_conns, pattern, metrics>>
    /\ (op' = "update") => SortedNoCase(conns', all_conns', sort_mode')
    /\ (op' # "reorder") => (sort_mode' = sort_mode)

ReorderFrameLowerCased == [][ReorderStepLowerCased]_vars

\* C27: a reorder call leaves the view with the same keys, in the order of
\* the attribute it remembers, and leaves the map, the removal list, the
\* pattern and the metrics unchanged; no other operation changes the
\* remembered attribute, and every update cycle leaves the view sorted by it.
C27_ReorderFrame == [][ReorderStep]_vars

\* The records of snap that update applies to the entry of the given key:
\* those with that key that pass the filter guard of the loop.
Applied(snap, key, p) ==
    SelectSeq(snap, LAMBDA d : GetKey(d) = key /\ FilterValues(p, d))

\* What an update cycle may do to an entry that was in the map before it.
SightStep ==
    (op' = "update") =>
        \A k \in Keys(all_conns) \cap Keys(all_conns') :
            LET old == Entry(all_conns, k).data
                new == Entry(all_conns', k).data
                app == Applied(snapshot', k, pattern)
            IN  /\ \A f \in {"pid", "name", "protocol", "laddr", "raddr", "ns"} :
                       new[f] = old[f]
                /\ new.status = IF app = <<>> THEN old.status
                                 ELSE Get(app[Len(app)], "status", "")

FromOwnLines(rec, field, lines, lo, hi, tag) ==
    LET j == LastWith(lines, lo, hi, tag) IN
    IF j = 0 THEN field \notin DOMAIN rec
    ELSE /\ field \in DOMAIN rec
         /\ rec[field] = SetAttrFromLine(<<>>, lines[j])[field]

\* C28: in a dump that parses, the protocol, the two addresses and the
\* status of every record come from the lines between the terminator before
\* and its own terminator only (a field with no such line is absent, so no
\* status leaks from one record into the next); its pid and process name
\* are those of the latest p and c lines before its terminator.
C28_OnlyPidAndNameCarried ==
    (fetched.called /\ fetched.raised = "") =>
        LET lines == lsof.stdout IN
        /\ Len(fetched.conns) = Cardinality(Terminators(lines))
        /\ \A i \in 1..Len(fetched.conns) :
              LET t == TermPos(lines, i)
                  prev == IF i = 1 THEN 0 ELSE TermPos(lines, i - 1)
                  rec == fetched.conns[i]
              IN  /\ FromOwnLines(rec, "protocol", lines, prev + 1, t, "P")
                  /\ FromOwnLines(rec, "laddr", lines, prev + 1, t, "n")
                  /\ FromOwnLines(rec, "raddr", lines, prev + 1, t, "n")
                  /\ FromOwnLines(rec, "status", lines, prev + 1, t, "TST")
                  /\ FromOwnLines(rec, "pid", lines, 1, t, "p")
                  /\ FromOwnLines(rec, "name", lines, 1, t, "c")

\* A listening socket followed by a further socket of the same process
\* that has no state line: the second record has the pid and no status.
C28_Witness ==
    /\ fetched.called /\ fetched.raised = ""
    /\ lsof.stdout = BlockListen \o BlockFurther
    /\ Len(fetched.conns) = 2
    /\ fetched.conns[1].status = "LISTEN"
    /\ fetched.conns[2].pid = "2"
    /\ "status" \notin DOMAIN fetched.conns[2]

\* C29: fetching the connections raises for no dump, the malformed ones
\* included.
C29_FetchNeverRaises == fetched.called => fetched.raised = ""

\* C30: whatever the resizes and toggles, the renderable width lies between
\* 0 and the screen width, and get_pattern gives one of the three device
\* classes for it without raising.
C30_RenderableWidthInRange ==
    /\ 0 <= r_renderable_width /\ r_renderable_width <= screen_width
    /\ col_pattern.raised = ""
    /\ col_pattern.text \in {"col-lg-", "col-md-", "col-sm-"}

\* The last two dot-separated labels of a name with a dot: what follows the
\* last dot but one, the whole name when it has one dot only.
LastTwoOf(name) ==
    LET dots == Occurrences(name, ".") IN
    IF Cardinality(dots) = 1 THEN name
    ELSE Slice(name, Max(dots \ {Max(dots)}))

\* C22: for a name the lookup gave, the hostname is its last two labels
\* when it has a dot, and the name itself when it has none.
C22_LastTwoLabels ==
    (hostname.called /\ resolver.raised = "") =>
        hostname.text = IF Occurrences(resolver.name, ".") # {}
                        THEN LastTwoOf(resolver.name)
                        ELSE resolver.name

\* C21: an invalid pattern typed into the filter input does not come out of
\* the handler as an exception, and the application goes on.
C21_InvalidPatternRecoverable ==
    handler = "on_input_changed" => app_raised = ""

\* C24: every cycle that starts ends with the timer resumed, also when one
\* of its steps fails.
C24_CycleResumesTimer == (pc = "pause") ~> (pc = "idle" /\ timer = "active")

\* A cycle starts only when none is executing and the timer is active; a
\* filter or sort command changes the model only between cycles.
CycleStep ==
    /\ (pc' = "pause" /\ pc # "pause") => (pc = "idle" /\ timer = "active")
    /\ (op' \in {"filter", "filter_error", "reorder"} /\ vars' # vars)
          => (pc = "idle" /\ pc' = "idle")

\* C23: at most one poll cycle is in flight: from its pause statement to
\* its end the timer is paused, no cycle starts while one is executing, and
\* no filter or sort command is applied in the middle of a cycle.
C23_OneCycleInFlight ==
    /\ [](pc \notin {"idle", "pause"} => timer = "paused")
    /\ [][CycleStep]_appState

\* A cycle about to resume the timer, after the user filtered and sorted
\* between cycles.
C23_Witness ==
    /\ pc = "resume" /\ timer = "paused" /\ op = "update"
    /\ pattern = PatEst /\ sort_mode = "pid"

\* update_display() ran to its end: in a cycle, or in a filter command.
Rendered ==
    \/ handler = "_refresh_datatable" /\ pc = "resume"
    \/ handler = "_refresh_datatable" /\ pc = "idle" /\ app_raised = ""
    \/ handler = "on_input_changed" /\ app_raised = ""

\* update_display() was the last call of the handler: it ran to its end or
\* it raised.
Refreshed ==
    \/ Rendered
    \/ handler = "_refresh_datatable" /\ pc = "idle" /\ app_raised = "TypeError"
    \/ handler = "on_input_changed" /\ app_raised = "TypeError"

\* A refresh that ran to its end leaves the rows of the view, whatever the
\* cycles, filter commands and column rebuilds before.
RenderedRowsAreTheView == Rendered => table_rows = Range(conns)

\* C31: after every table refresh that follows an update cycle or a filter
\* command the row keys of the table are the keys of the view: every entry
\* of the view has a row and every entry that left it has none, whatever
\* the update cycles, filter commands and column rebuilds before.
C31_RowsAreTheView == Refreshed => table_rows = Range(conns)

====
